---- MODULE Spec2Model ----
(***************************************************************************)
(* Model of the two Hangul codecs of KRTokenizer:                          *)
(*   korean_tokenizer_compat_jamo.py  (prefix CJ_)                         *)
(*   korean_tokenizer_zero_space.py   (prefix ZS_)                         *)
(* A character is its codepoint (ord/chr are the identity on codepoints in *)
(* 0..0x10FFFF; chr raises outside of it).  A string is a sequence of      *)
(* codepoints.  The cursors are 0-based as in the code; text[k] of the     *)
(* code is At(text, k) here.                                               *)
(***************************************************************************)
EXTENDS Integers, Sequences, FiniteSets, TLC

VARIABLES codec, mode, input, text, i, result, pc, last

vars == <<codec, mode, input, text, i, result, pc, last>>

\* ---------------------------------------------------------------- bounds
MaxLen == 3

\* ------------------------------------------------------------- constants
\* first codepoint of the range, one too low
HANGUL_BASE_OffByOne == 44032 - 1

HANGUL_BASE == 44032
\* last codepoint of the range, one too high
HANGUL_LAST_OffByOne == 55203 + 1

HANGUL_LAST == 55203
ZWS == 8203
MAX_CODEPOINT == 1114111
None == 0

\* codepoints the inputs are drawn from:
\* 'a', U+200B, 'ㄱ' (initial 0 and final 1), 'ㅏ' (medial 0), U+ABFF,
\* U+AC00 '가' (0,0,0), U+AC01 '각' (0,0,1), U+B530 '따' (4,0,0),
\* U+D7A3 '힣' (18,20,27), U+D7A4
Alphabet == {97, 8203, 12593, 12623, 44031, 44032, 44033, 46384, 55203, 55204}

RECURSIVE StringsUpTo(_)
StringsUpTo(n) ==
  IF n = 0 THEN {<<>>}
  ELSE LET S == StringsUpTo(n - 1)
       IN  S \cup {Append(s, c) : s \in {t \in S : Len(t) = n - 1}, c \in Alphabet}

Inputs == StringsUpTo(MaxLen)

At(s, k) == s[k + 1]

\* ------------------------------------------------------ Compat-Jamo tables
CJ_INITIAL_COMPAT ==
  <<12593, 12594, 12596, 12599, 12600, 12601, 12609, 12610, 12611,
    12613, 12614, 12615, 12616, 12617, 12618, 12619, 12620, 12621, 12622>>

CJ_MEDIAL_COMPAT ==
  <<12623, 12624, 12625, 12626, 12627, 12628, 12629, 12630, 12631,
    12632, 12633, 12634, 12635, 12636, 12637, 12638, 12639, 12640,
    12641, 12642, 12643>>

\* the final table with 'ㄸ' typed for 'ㄷ' at index 7
CJ_FINAL_COMPAT_Typo ==
  <<None,
    12593, 12594, 12595, 12596, 12597, 12598, 12600, 12601, 12602,
    12603, 12604, 12605, 12606, 12607, 12608, 12609, 12610, 12612,
    12613, 12614, 12615, 12616, 12618, 12619, 12620, 12621, 12622>>

CJ_FINAL_COMPAT ==
  <<None,
    12593, 12594, 12595, 12596, 12597, 12598, 12599, 12601, 12602,
    12603, 12604, 12605, 12606, 12607, 12608, 12609, 12610, 12612,
    12613, 12614, 12615, 12616, 12618, 12619, 12620, 12621, 12622>>

\* { jamo:i for i,jamo in enumerate(table) [if jamo is not None] }
\* (a later duplicate would overwrite an earlier one, hence the largest index)
EnumerateMap(table) ==
  [jamo \in {table[k] : k \in 1..Len(table)} \ {None} |->
     CHOOSE k \in 0..(Len(table) - 1) :
        /\ table[k + 1] = jamo
        /\ \A k2 \in 0..(Len(table) - 1) : table[k2 + 1] = jamo => k2 <= k]

CJ_INITIAL_MAP == EnumerateMap(CJ_INITIAL_COMPAT)
CJ_MEDIAL_MAP == EnumerateMap(CJ_MEDIAL_COMPAT)
CJ_FINAL_MAP == EnumerateMap(CJ_FINAL_COMPAT)

\* list[idx] of Python: IndexError unless -len <= idx < len; a negative idx
\* counts from the end
ListIndexOk(table, idx) == idx >= -Len(table) /\ idx < Len(table)

ListGet(table, idx) == table[(IF idx < 0 THEN idx + Len(table) ELSE idx) + 1]

\* chr(code) raises ValueError outside 0..0x10FFFF
ChrOk(code) == code >= 0 /\ code <= MAX_CODEPOINT

\* the medial index scaled by 21 instead of 28
CJ_compose_syllable_Radix(i_idx, m_idx, f_idx) ==
  HANGUL_BASE + (i_idx * 21 * 28) + (m_idx * 21) + f_idx

CJ_compose_syllable(i_idx, m_idx, f_idx) ==
  HANGUL_BASE + (i_idx * 21 * 28) + (m_idx * 28) + f_idx

\* one iteration of the for loop of decompose, on the character at cursor k
CJ_DecomposeAt(s, k) ==
  LET ch == At(s, k)
      code == ch
  IN  IF code < HANGUL_BASE \/ code > HANGUL_LAST
      THEN [kind |-> "copy", emit |-> <<ch>>, next |-> k + 1,
            imf |-> <<>>, call |-> <<>>, ok |-> TRUE]
      ELSE LET offset == code - HANGUL_BASE
               i_idx == offset \div (21 * 28)
               m_idx == (offset % (21 * 28)) \div 28
               f_idx == (offset % (21 * 28)) % 28
               inRange == /\ ListIndexOk(CJ_INITIAL_COMPAT, i_idx)
                          /\ ListIndexOk(CJ_MEDIAL_COMPAT, m_idx)
                          /\ (f_idx # 0 => ListIndexOk(CJ_FINAL_COMPAT, f_idx))
           IN  IF ~inRange
               THEN [kind |-> "syllable", emit |-> <<>>, next |-> k + 1,
                     imf |-> <<i_idx, m_idx, f_idx>>, call |-> <<>>,
                     ok |-> FALSE]
               ELSE LET initial_jamo == ListGet(CJ_INITIAL_COMPAT, i_idx)
                        medial_jamo == ListGet(CJ_MEDIAL_COMPAT, m_idx)
                    IN  [kind |-> "syllable",
                         emit |-> <<initial_jamo, medial_jamo>> \o
                                  (IF f_idx # 0 /\ ListGet(CJ_FINAL_COMPAT, f_idx) # None
                                   THEN <<ListGet(CJ_FINAL_COMPAT, f_idx)>>
                                   ELSE <<>>),
                         next |-> k + 1, imf |-> <<i_idx, m_idx, f_idx>>,
                         call |-> <<>>, ok |-> TRUE]

\* compose that takes the character after initial + medial without testing
\* that it is a final jamo (f_idx = _FINAL_MAP.get(c3, 0); i += 1)
CJ_ComposeAt_SwallowNext(s, k) ==
  LET n == Len(s)
      c == At(s, k)
  IN  IF /\ c \in DOMAIN CJ_INITIAL_MAP
         /\ (k + 1) < n
         /\ At(s, k + 1) \in DOMAIN CJ_MEDIAL_MAP
      THEN LET i_idx == CJ_INITIAL_MAP[c]
               m_idx == CJ_MEDIAL_MAP[At(s, k + 1)]
               j == k + 2
               f_idx == IF j < n /\ At(s, j) \in DOMAIN CJ_FINAL_MAP
                        THEN CJ_FINAL_MAP[At(s, j)] ELSE 0
               block == CJ_compose_syllable(i_idx, m_idx, f_idx)
           IN  [kind |-> "match", emit |-> <<block>>,
                next |-> IF j < n THEN j + 1 ELSE j, imf |-> <<>>,
                call |-> <<i_idx, m_idx, f_idx>>, ok |-> ChrOk(block)]
      ELSE [kind |-> "copy", emit |-> <<c>>, next |-> k + 1,
            imf |-> <<>>, call |-> <<>>, ok |-> TRUE]

\* one iteration of the while loop of compose, with the cursor at k
CJ_ComposeAt(s, k) ==
  LET n == Len(s)
      c == At(s, k)
  IN  IF /\ c \in DOMAIN CJ_INITIAL_MAP
         /\ (k + 1) < n
         /\ At(s, k + 1) \in DOMAIN CJ_MEDIAL_MAP
      THEN LET i_idx == CJ_INITIAL_MAP[c]
               m_idx == CJ_MEDIAL_MAP[At(s, k + 1)]
               j == k + 2
               hasFinal == j < n /\ At(s, j) \in DOMAIN CJ_FINAL_MAP
               f_idx == IF hasFinal THEN CJ_FINAL_MAP[At(s, j)] ELSE 0
               block == CJ_compose_syllable(i_idx, m_idx, f_idx)
           IN  [kind |-> "match", emit |-> <<block>>,
                next |-> IF hasFinal THEN j + 1 ELSE j, imf |-> <<>>,
                call |-> <<i_idx, m_idx, f_idx>>, ok |-> ChrOk(block)]
      ELSE [kind |-> "copy", emit |-> <<c>>, next |-> k + 1,
            imf |-> <<>>, call |-> <<>>, ok |-> TRUE]

\* ------------------------------------------------------- Zero-Space tables
ZS_FINAL_JAMO ==
  <<None,
    12593, 12594, 12595, 12596, 12597, 12598, 12599, 12601, 12602,
    12603, 12604, 12605, 12606, 12607, 12608, 12609, 12610, 12612,
    12613, 12614, 12615, 12616, 12618, 12619, 12620, 12621, 12622>>

\* the index map numbered from 0, as enumerate() over the jamo without the
\* leading None would number it
ZS_FINAL_JAMO_TO_INDEX_ZeroBased ==
  [jamo \in {ZS_FINAL_JAMO[k] : k \in 2..Len(ZS_FINAL_JAMO)} |->
     (CHOOSE k \in 1..(Len(ZS_FINAL_JAMO) - 1) : ZS_FINAL_JAMO[k + 1] = jamo) - 1]

ZS_FINAL_JAMO_TO_INDEX ==
  12593 :> 1 @@ 12594 :> 2 @@ 12595 :> 3 @@ 12596 :> 4 @@ 12597 :> 5 @@
  12598 :> 6 @@ 12599 :> 7 @@ 12601 :> 8 @@ 12602 :> 9 @@ 12603 :> 10 @@
  12604 :> 11 @@ 12605 :> 12 @@ 12606 :> 13 @@ 12607 :> 14 @@ 12608 :> 15 @@
  12609 :> 16 @@ 12610 :> 17 @@ 12612 :> 18 @@ 12613 :> 19 @@ 12614 :> 20 @@
  12615 :> 21 @@ 12616 :> 22 @@ 12618 :> 23 @@ 12619 :> 24 @@ 12620 :> 25 @@
  12621 :> 26 @@ 12622 :> 27

\* the range test with the upper bound one too high
ZS_decompose_syllable_Upper(syllable) ==
  LET code == syllable
  IN  IF code < HANGUL_BASE \/ code > HANGUL_LAST + 1
      THEN <<>>
      ELSE LET offset == code - HANGUL_BASE
               i_idx == offset \div (21 * 28)
               m_idx == (offset % (21 * 28)) \div 28
               f_idx == (offset % (21 * 28)) % 28
           IN  <<i_idx, m_idx, f_idx>>

\* None is <<>>, a triple is <<i_idx, m_idx, f_idx>>
ZS_decompose_syllable(syllable) ==
  LET code == syllable
  IN  IF code < HANGUL_BASE \/ code > HANGUL_LAST
      THEN <<>>
      ELSE LET offset == code - HANGUL_BASE
               i_idx == offset \div (21 * 28)
               m_idx == (offset % (21 * 28)) \div 28
               f_idx == (offset % (21 * 28)) % 28
           IN  <<i_idx, m_idx, f_idx>>

\* the medial index scaled by 21 instead of 28
ZS_compose_syllable_Radix(i_idx, m_idx, f_idx) ==
  HANGUL_BASE + (i_idx * 21 * 28) + (m_idx * 21) + f_idx

ZS_compose_syllable(i_idx, m_idx, f_idx) ==
  HANGUL_BASE + (i_idx * 21 * 28) + (m_idx * 28) + f_idx

\* one iteration of the for loop of decompose, on the character at cursor k
ZS_DecomposeAt(s, k) ==
  LET char == At(s, k)
      imf == ZS_decompose_syllable(char)
  IN  IF imf = <<>>
      THEN [kind |-> "copy", emit |-> <<char>>, next |-> k + 1,
            imf |-> <<>>, call |-> <<>>, ok |-> TRUE]
      ELSE LET i_idx == imf[1]
               m_idx == imf[2]
               f_idx == imf[3]
               im_char == ZS_compose_syllable(i_idx, m_idx, 0)
           IN  IF f_idx # 0 /\ ~ListIndexOk(ZS_FINAL_JAMO, f_idx)
               THEN [kind |-> "syllable", emit |-> <<im_char>>, next |-> k + 1,
                     imf |-> imf, call |-> <<i_idx, m_idx, 0>>, ok |-> FALSE]
               ELSE [kind |-> "syllable",
                     emit |-> <<im_char>> \o
                              (IF f_idx # 0 /\ ListGet(ZS_FINAL_JAMO, f_idx) # None
                               THEN <<ZWS, ListGet(ZS_FINAL_JAMO, f_idx)>>
                               ELSE <<>>),
                     next |-> k + 1, imf |-> imf, call |-> <<i_idx, m_idx, 0>>,
                     ok |-> ChrOk(im_char)]

\* compose that keeps the decoded final index when no final jamo follows
\* (_compose_syllable(i_idx, m_idx, f_idx) on the last line of the loop)
ZS_ComposeAt_KeepFinal(s, k) ==
  LET length == Len(s)
      c == At(s, k)
      code == c
      copy == [kind |-> "copy", emit |-> <<c>>, next |-> k + 1,
               imf |-> <<>>, call |-> <<>>, ok |-> TRUE]
  IN  IF code < HANGUL_BASE \/ code > HANGUL_LAST
      THEN copy
      ELSE LET imf == ZS_decompose_syllable(c)
           IN  IF imf = <<>>
               THEN copy
               ELSE LET i_idx == imf[1]
                        m_idx == imf[2]
                        peek0 == k + 1
                        peek_idx == IF peek0 < length /\ At(s, peek0) = ZWS
                                    THEN peek0 + 1 ELSE peek0
                    IN  IF /\ peek_idx < length
                           /\ At(s, peek_idx) \in DOMAIN ZS_FINAL_JAMO_TO_INDEX
                        THEN LET f_idx == ZS_FINAL_JAMO_TO_INDEX[At(s, peek_idx)]
                                 block == ZS_compose_syllable(i_idx, m_idx, f_idx)
                             IN  [kind |-> "final", emit |-> <<block>>,
                                  next |-> peek_idx + 1, imf |-> imf,
                                  call |-> <<i_idx, m_idx, f_idx>>,
                                  ok |-> ChrOk(block)]
                        ELSE LET block == ZS_compose_syllable(i_idx, m_idx, imf[3])
                             IN  [kind |-> "nofinal", emit |-> <<block>>,
                                  next |-> k + 1, imf |-> imf,
                                  call |-> <<i_idx, m_idx, imf[3]>>,
                                  ok |-> ChrOk(block)]

\* one iteration of the while loop of compose, with the cursor at k
ZS_ComposeAt(s, k) ==
  LET length == Len(s)
      c == At(s, k)
      code == c
      copy == [kind |-> "copy", emit |-> <<c>>, next |-> k + 1,
               imf |-> <<>>, call |-> <<>>, ok |-> TRUE]
  IN  IF code < HANGUL_BASE \/ code > HANGUL_LAST
      THEN copy
      ELSE LET imf == ZS_decompose_syllable(c)
           IN  IF imf = <<>>
               THEN copy
               ELSE LET i_idx == imf[1]
                        m_idx == imf[2]
                        peek0 == k + 1
                        peek_idx == IF peek0 < length /\ At(s, peek0) = ZWS
                                    THEN peek0 + 1 ELSE peek0
                    IN  IF /\ peek_idx < length
                           /\ At(s, peek_idx) \in DOMAIN ZS_FINAL_JAMO_TO_INDEX
                        THEN LET f_idx == ZS_FINAL_JAMO_TO_INDEX[At(s, peek_idx)]
                                 block == ZS_compose_syllable(i_idx, m_idx, f_idx)
                             IN  [kind |-> "final", emit |-> <<block>>,
                                  next |-> peek_idx + 1, imf |-> imf,
                                  call |-> <<i_idx, m_idx, f_idx>>,
                                  ok |-> ChrOk(block)]
                        ELSE LET block == ZS_compose_syllable(i_idx, m_idx, 0)
                             IN  [kind |-> "nofinal", emit |-> <<block>>,
                                  next |-> k + 1, imf |-> imf,
                                  call |-> <<i_idx, m_idx, 0>>,
                                  ok |-> ChrOk(block)]

\* ------------------------------------------------- whole calls (the loops)
StepAt(cd, fn, s, k) ==
  IF cd = "compat"
  THEN (IF fn = "decompose" THEN CJ_DecomposeAt(s, k) ELSE CJ_ComposeAt(s, k))
  ELSE (IF fn = "decompose" THEN ZS_DecomposeAt(s, k) ELSE ZS_ComposeAt(s, k))

RECURSIVE RunFrom(_, _, _, _)
RunFrom(cd, fn, s, k) ==
  IF k >= Len(s) THEN <<>>
  ELSE LET r == StepAt(cd, fn, s, k)
       IN  r.emit \o RunFrom(cd, fn, s, r.next)

CJ_decompose(s) == RunFrom("compat", "decompose", s, 0)
CJ_compose(s) == RunFrom("compat", "compose", s, 0)
ZS_decompose(s) == RunFrom("zero", "decompose", s, 0)
ZS_compose(s) == RunFrom("zero", "compose", s, 0)

\* ------------------------------------------------------------ the machine
\* mode: which call the client makes on input: decompose(input),
\* compose(input), or compose(decompose(input)) ("roundtrip").
\* pc: the function whose loop is running, "done" after the last return,
\* "raised" when an exception left the call.
\* last: what the latest step did (the function and branch that ran, the
\* cursor before it, the index triple it decoded, the arguments of its
\* _compose_syllable call).
NoStep == [kind |-> "none", fn |-> "none", at |-> 0, imf |-> <<>>, call |-> <<>>]

Init ==
  /\ codec \in {"compat", "zero"}
  /\ mode \in {"decompose", "compose", "roundtrip"}
  /\ input \in Inputs
  /\ text = input
  /\ i = 0
  /\ result = <<>>
  /\ pc = IF mode = "compose" THEN "compose" ELSE "decompose"
  /\ last = NoStep

Iterate(fn, kind) ==
  /\ pc = fn
  /\ i < Len(text)
  /\ LET r == StepAt(codec, fn, text, i)
     IN  /\ r.kind = kind
         /\ result' = IF r.ok THEN result \o r.emit ELSE result
         /\ i' = r.next
         /\ pc' = IF r.ok THEN pc ELSE "raised"
         /\ last' = [kind |-> kind, fn |-> fn, at |-> i, imf |-> r.imf,
                     call |-> r.call]
  /\ UNCHANGED <<codec, mode, input, text>>

CJ_DecomposeCopy ==
  /\ codec = "compat"
  /\ Iterate("decompose", "copy")

CJ_DecomposeSyllable ==
  /\ codec = "compat"
  /\ Iterate("decompose", "syllable")

CJ_ComposeMatch ==
  /\ codec = "compat"
  /\ Iterate("compose", "match")

CJ_ComposeCopy ==
  /\ codec = "compat"
  /\ Iterate("compose", "copy")

ZS_DecomposeCopy ==
  /\ codec = "zero"
  /\ Iterate("decompose", "copy")

ZS_DecomposeSyllable ==
  /\ codec = "zero"
  /\ Iterate("decompose", "syllable")

ZS_ComposeCopy ==
  /\ codec = "zero"
  /\ Iterate("compose", "copy")

ZS_ComposeFinal ==
  /\ codec = "zero"
  /\ Iterate("compose", "final")

ZS_ComposeNoFinal ==
  /\ codec = "zero"
  /\ Iterate("compose", "nofinal")

\* return "".join(result), the last call of the client
Return ==
  /\ pc \in {"decompose", "compose"}
  /\ i >= Len(text)
  /\ ~(mode = "roundtrip" /\ pc = "decompose")
  /\ pc' = "done"
  /\ last' = [kind |-> "return", fn |-> pc, at |-> i, imf |-> <<>>,
              call |-> <<>>]
  /\ UNCHANGED <<codec, mode, input, text, i, result>>

\* decompose returns and the client passes its value to compose
Feed ==
  /\ pc = "decompose"
  /\ i >= Len(text)
  /\ mode = "roundtrip"
  /\ text' = result
  /\ result' = <<>>
  /\ i' = 0
  /\ pc' = "compose"
  /\ last' = [kind |-> "feed", fn |-> pc, at |-> i, imf |-> <<>>,
              call |-> <<>>]
  /\ UNCHANGED <<codec, mode, input>>

Next ==
  \/ CJ_DecomposeCopy
  \/ CJ_DecomposeSyllable
  \/ CJ_ComposeMatch
  \/ CJ_ComposeCopy
  \/ ZS_DecomposeCopy
  \/ ZS_DecomposeSyllable
  \/ ZS_ComposeCopy
  \/ ZS_ComposeFinal
  \/ ZS_ComposeNoFinal
  \/ Return
  \/ Feed

Spec == Init /\ [][Next]_vars

\* every loop iteration and every return is straight-line code that runs
FairSpec == Spec /\ WF_vars(Next)

\* ================================================================ claims
\* vocabulary of the claims
SyllableRange == 44032..55203

OnlySyllables(s) == \A k \in 1..Len(s) : s[k] \in SyllableRange

NoSyllable(s) == \A k \in 1..Len(s) : s[k] \notin SyllableRange

TableKeys(table) == {table[k] : k \in 1..Len(table)} \ {None}

\* index triple of a syllable codepoint: code - 0xAC00 = i*588 + m*28 + f
InitialIndex(c) == (c - 44032) \div 588
MedialIndex(c) == ((c - 44032) % 588) \div 28
FinalIndex(c) == (c - 44032) % 28

Returned(cd, md) == codec = cd /\ mode = md /\ pc = "done"

\* ---- C1: Compat-Jamo round trip, compose(decompose(s)) = s for every
\* string s of syllable codepoints.
C1_CompatRoundTrip ==
  (Returned("compat", "roundtrip") /\ OnlySyllables(input)) => result = input

\* ---- C2: Zero-Space round trip, compose(decompose(s)) = s for every
\* string s of syllable codepoints, with or without finals.
C2_ZeroSpaceRoundTrip ==
  (Returned("zero", "roundtrip") /\ OnlySyllables(input)) => result = input

\* a round trip of two or more syllables, one with a final and one without
C2_Witness ==
  /\ Returned("zero", "roundtrip")
  /\ OnlySyllables(input)
  /\ Len(input) >= 2
  /\ \E k \in 1..Len(input) : FinalIndex(input[k]) # 0
  /\ \E k \in 1..Len(input) : FinalIndex(input[k]) = 0
  /\ Len(text) > Len(input)
  /\ result = input

\* ---- C3 as stated: in each codec, for every string s without a syllable
\* codepoint, decompose(s) = s and compose(s) = s.
C3_PassThroughOriginal ==
  (pc = "done" /\ mode \in {"decompose", "compose"} /\ NoSyllable(input))
    => result = input

\* an initial jamo directly followed by a medial jamo
HasInitialMedialPair(s) ==
  \E k \in 1..(Len(s) - 1) :
     /\ s[k] \in TableKeys(CJ_INITIAL_COMPAT)
     /\ s[k + 1] \in TableKeys(CJ_MEDIAL_COMPAT)

\* ---- C3 amended: for every string s without a syllable codepoint,
\* decompose(s) = s in both codecs and the Zero-Space compose(s) = s; the
\* Compat-Jamo compose(s) = s when no initial jamo of s is directly followed
\* by a medial jamo.
C3_PassThrough ==
  (/\ pc = "done"
   /\ mode \in {"decompose", "compose"}
   /\ NoSyllable(input)
   /\ ~(codec = "compat" /\ mode = "compose" /\ HasInitialMedialPair(input)))
    => result = input

\* the Compat-Jamo compose has passed jamo, U+200B and other characters through
C3_Witness ==
  /\ Returned("compat", "compose")
  /\ NoSyllable(input)
  /\ Len(input) = MaxLen
  /\ \E k \in 1..Len(input) : input[k] \in TableKeys(CJ_INITIAL_COMPAT)
  /\ \E k \in 1..Len(input) : input[k] \in TableKeys(CJ_MEDIAL_COMPAT)
  /\ result = input

\* ---- C4: mixed content.  In both codecs, for op = decompose and for
\* op = compose, a character c that is no syllable, no key of a jamo table
\* and not U+200B is copied at its place: op(x + c + y) = op(x) + c + op(y).
IsOther(c) ==
  /\ c \notin SyllableRange
  /\ c \notin TableKeys(CJ_INITIAL_COMPAT)
  /\ c \notin TableKeys(CJ_MEDIAL_COMPAT)
  /\ c \notin TableKeys(CJ_FINAL_COMPAT)
  /\ c \notin TableKeys(ZS_FINAL_JAMO)
  /\ c # 8203

C4_MixedContent ==
  (pc = "done" /\ mode \in {"decompose", "compose"}) =>
    \A k \in 1..Len(input) :
       IsOther(input[k]) =>
         result = RunFrom(codec, mode, SubSeq(input, 1, k - 1), 0)
                    \o <<input[k]>>
                    \o RunFrom(codec, mode, SubSeq(input, k + 1, Len(input)), 0)

\* another character between two parts that the operation rewrites
C4_Witness ==
  /\ pc = "done"
  /\ mode \in {"decompose", "compose"}
  /\ Len(input) = 3
  /\ IsOther(input[2])
  /\ ~IsOther(input[1])
  /\ ~IsOther(input[3])
  /\ result # input

\* ---- C5: boundary codepoints.  The decompose of both codecs and the
\* Zero-Space compose treat exactly the codepoints 0xAC00..0xD7A3 as
\* syllables: 0xAC00 decodes to (0,0,0), 0xD7A3 to (18,20,27); 0xABFF and
\* 0xD7A4 are copied unchanged.
C5_Boundary ==
  [][\A c \in {44031, 44032, 55203, 55204} :
       (/\ pc \in {"decompose", "compose"}
        /\ ~(codec = "compat" /\ pc = "compose")
        /\ i < Len(text)
        /\ At(text, i) = c)
       => /\ (c = 44032 => last'.imf = <<0, 0, 0>>)
          /\ (c = 55203 => last'.imf = <<18, 20, 27>>)
          /\ (c \in {44031, 55204} =>
                /\ last'.kind = "copy"
                /\ result' = Append(result, c)
                /\ i' = i + 1)]_vars

\* the Zero-Space compose has decoded U+D7A3 right after copying U+D7A4
C5_Witness ==
  /\ codec = "zero"
  /\ last.fn = "compose"
  /\ last.imf = <<18, 20, 27>>
  /\ last.at = 1
  /\ At(text, 0) = 55204
  /\ result[1] = 55204

\* ---- C6: shape of a decomposed syllable with indices (i, m, f).
\* Compat-Jamo emits [initial[i], medial[m]] when f = 0 and
\* [initial[i], medial[m], final[f]] otherwise; Zero-Space emits the one
\* codepoint 0xAC00 + i*588 + m*28 when f = 0 and
\* [0xAC00 + i*588 + m*28, U+200B, final[f]] otherwise.
C6_Expected(cd, c) ==
  LET ii == InitialIndex(c)
      mm == MedialIndex(c)
      ff == FinalIndex(c)
  IN  IF cd = "compat"
      THEN (IF ff = 0
            THEN <<CJ_INITIAL_COMPAT[ii + 1], CJ_MEDIAL_COMPAT[mm + 1]>>
            ELSE <<CJ_INITIAL_COMPAT[ii + 1], CJ_MEDIAL_COMPAT[mm + 1],
                   CJ_FINAL_COMPAT[ff + 1]>>)
      ELSE (IF ff = 0
            THEN <<44032 + ii * 588 + mm * 28>>
            ELSE <<44032 + ii * 588 + mm * 28, 8203, ZS_FINAL_JAMO[ff + 1]>>)

C6_DecomposedShape ==
  [][(pc = "decompose" /\ i < Len(text) /\ At(text, i) \in SyllableRange)
       => result' = result \o C6_Expected(codec, At(text, i))]_vars

\* decompose has split a syllable with a final after one without
C6_Witness ==
  /\ last.fn = "decompose"
  /\ last.kind = "syllable"
  /\ last.at = 1
  /\ FinalIndex(At(text, 1)) # 0
  /\ MedialIndex(At(text, 1)) # 0
  /\ At(text, 0) \in SyllableRange
  /\ FinalIndex(At(text, 0)) = 0
  /\ Len(result) = IF codec = "compat" THEN 5 ELSE 4

\* ---- C7: Zero-Space compose without a final.  At a syllable (i, m, f)
\* whose inspected character (the next one, or the one after a U+200B that
\* directly follows) is absent or no final jamo, compose emits
\* 0xAC00 + i*588 + m*28 and advances by exactly one; the step after it
\* copies an unmatched U+200B verbatim; a syllable with f = 0 is emitted
\* unchanged.
C7_Inspected(s, k) ==
  IF k + 1 < Len(s) /\ At(s, k + 1) = 8203 THEN k + 2 ELSE k + 1

C7_NoFinalFollows(s, k) ==
  \/ C7_Inspected(s, k) >= Len(s)
  \/ At(s, C7_Inspected(s, k)) \notin TableKeys(ZS_FINAL_JAMO)

C7_ComposeNoFinal ==
  [][(codec = "zero" /\ pc = "compose" /\ i < Len(text)) =>
       /\ (At(text, i) \in SyllableRange /\ C7_NoFinalFollows(text, i)) =>
            /\ result' = Append(result, 44032 + InitialIndex(At(text, i)) * 588
                                              + MedialIndex(At(text, i)) * 28)
            /\ i' = i + 1
            /\ (FinalIndex(At(text, i)) = 0 =>
                  result' = Append(result, At(text, i)))
       /\ (/\ i > 0
           /\ At(text, i) = 8203
           /\ At(text, i - 1) \in SyllableRange
           /\ C7_NoFinalFollows(text, i - 1)) =>
            /\ result' = Append(result, 8203)
            /\ i' = i + 1]_vars

\* compose has dropped the final of a syllable that an unmatched U+200B
\* follows, and copied that U+200B
C7_Witness ==
  /\ codec = "zero"
  /\ last.fn = "compose"
  /\ last.kind = "copy"
  /\ last.at = 1
  /\ At(text, 1) = 8203
  /\ At(text, 0) \in SyllableRange
  /\ FinalIndex(At(text, 0)) # 0
  /\ result = <<At(text, 0) - FinalIndex(At(text, 0)), 8203>>

\* ---- C8: totality.  On every input, decompose and compose of both codecs
\* raise nothing and return; each loop iteration moves the cursor strictly
\* forward and never past the end of the input; every call of
\* _compose_syllable has i in 0..18, m in 0..20, f in 0..27.
C8_CallInRange ==
  last.call # <<>> =>
    /\ last.call[1] \in 0..18
    /\ last.call[2] \in 0..20
    /\ last.call[3] \in 0..27

C8_Safe ==
  /\ pc # "raised"
  /\ i <= Len(text)
  /\ C8_CallInRange
  /\ (last.fn = "compose" /\ last.call # <<>>) =>
        result[Len(result)] \in SyllableRange

C8_Totality ==
  /\ []C8_Safe
  /\ [][last'.kind \notin {"return", "feed"} => (i' > i /\ i' <= Len(text))]_vars
  /\ <>(pc = "done")

\* compose has returned after a step that consumed three characters
C8_Witness ==
  /\ pc = "done"
  /\ mode = "compose"
  /\ Len(input) = MaxLen
  /\ Len(result) = MaxLen - 2
  /\ result[Len(result)] \in SyllableRange

\* ---- C9 as stated: no codepoint is both a key of _INITIAL_MAP and a key
\* of _FINAL_MAP, so the final that compose consumes is never an initial.
C9_DisjointOriginal ==
  (codec = "compat" /\ last.kind = "match" /\ last.call[3] # 0)
    => /\ DOMAIN CJ_INITIAL_MAP \cap DOMAIN CJ_FINAL_MAP = {}
       /\ At(text, last.at + 2) \notin DOMAIN CJ_INITIAL_MAP

\* ---- C9 amended: the only keys of _INITIAL_MAP that are no keys of
\* _FINAL_MAP are the initials 4, 8 and 13; the final that compose consumes
\* is never one of these three (it can be any other initial jamo).
C9_Disjoint ==
  /\ DOMAIN CJ_INITIAL_MAP \ DOMAIN CJ_FINAL_MAP =
       {CJ_INITIAL_COMPAT[4 + 1], CJ_INITIAL_COMPAT[8 + 1], CJ_INITIAL_COMPAT[13 + 1]}
  /\ (codec = "compat" /\ last.kind = "match" /\ last.call[3] # 0)
       => At(text, last.at + 2) \notin
            {CJ_INITIAL_COMPAT[4 + 1], CJ_INITIAL_COMPAT[8 + 1], CJ_INITIAL_COMPAT[13 + 1]}

\* compose has taken as a final the initial jamo of the next syllable of
\* the decomposed text
C9_Witness ==
  /\ codec = "compat"
  /\ mode = "roundtrip"
  /\ last.kind = "match"
  /\ last.call[3] # 0
  /\ At(text, last.at + 2) \in DOMAIN CJ_INITIAL_MAP
  /\ last.at + 3 < Len(text)
  /\ At(text, last.at + 3) \in DOMAIN CJ_MEDIAL_MAP

\* ---- C10: conditional round trip of the Compat-Jamo codec.  When every
\* syllable of s with final index 0 is the last character of s or is
\* directly followed by a syllable whose initial jamo is no key of the
\* final map, compose(decompose(s)) = s.
C10_Separable(s) ==
  \A k \in 1..Len(s) :
     FinalIndex(s[k]) = 0 =>
        \/ k = Len(s)
        \/ CJ_INITIAL_COMPAT[InitialIndex(s[k + 1]) + 1] \notin TableKeys(CJ_FINAL_COMPAT)

C10_ConditionalRoundTrip ==
  (/\ Returned("compat", "roundtrip")
   /\ OnlySyllables(input)
   /\ C10_Separable(input))
    => result = input

\* a round trip where a syllable without a final precedes another syllable
C10_Witness ==
  /\ Returned("compat", "roundtrip")
  /\ OnlySyllables(input)
  /\ C10_Separable(input)
  /\ \E k \in 1..(Len(input) - 1) : FinalIndex(input[k]) = 0
  /\ \E k \in 1..Len(input) : FinalIndex(input[k]) # 0
  /\ result = input

====
